---- MODULE Spec2Model ----
(***************************************************************************)
(* A model of the analytics pipeline of moodle-analytics: the engagement   *)
(* scoring and risk tiering (src/src/analysis.py, src/data/                 *)
(* preprocessing.py), quiz attempt processing, the forum reply times and    *)
(* reply graph, the course completion rates, the cleaning of log events and *)
(* their aggregation into the engagement table (src/src/preprocessing.py,   *)
(* src/data/preprocessing.py), and the dashboard session with its cached    *)
(* snapshot (src/dashboard/app.py).                                         *)
(*                                                                         *)
(* Tables (pandas DataFrames) are sequences of records.  A float is a       *)
(* fraction [num, den]: den = 0 is what float division by zero gives        *)
(* (0/0 = NaN, x/0 = inf for x > 0).  Arithmetic is exact: engagement       *)
(* scores are kept in tenths so that the weights 0.3/0.4 are integers.  A   *)
(* missing categorical value (pandas NaN category) is the label NoLabel.    *)
(***************************************************************************)
EXTENDS Integers, Sequences, FiniteSets, TLC

VARIABLES
    pc,               \* stage of the pipeline, position of the dashboard script
    engagement_data,  \* table: one row per (userid, courseid, time bucket)
    scores,           \* result of calculate_student_engagement_scores
    at_risk,          \* result of identify_at_risk_students
    risk_data,        \* result of generate_sample_risk_analysis
    engagement_percentile, \* a percentile handed to the risk binning
    risk_level,       \* the tier the risk binning gives it
    attempts_df,      \* quiz attempts as extracted, rows in any order
    df_quiz,          \* result of process_quiz_data
    merged,           \* result of preprocess_sample_quizzes
    forum_data,       \* forum posts as extracted
    df_forum,         \* result of process_forum_data
    G,                \* graph of analyze_forum_interaction_network
    metrics,          \* network metrics of analyze_forum_interaction_network
    sample_G,         \* graph of create_sample_forum_network_graph
    course_data,      \* course table of the snapshot
    completion_rate,  \* "Avg. Completion Rate" metric of the course view
    top_courses,      \* "Top Courses by Enrollment" table of the course view
    log_data,         \* log events as extracted
    df_clean,         \* result of clean_log_data / preprocess_sample_logs
    df_again,         \* result of cleaning the cleaned table once more
    engagement,       \* result of create_engagement_metrics on df_clean
    patterns,         \* result of analyze_course_activity_patterns
    course_patterns,  \* result of create_sample_course_analytics
    student_profiles, \* student profiles handed to the clustering
    clusters,         \* result of create_sample_student_clusters
    session_state,    \* st.session_state: data_loaded, data_source, the tables
    self_data,        \* the feed attributes of the MoodleDashboard object
    loads,            \* number of load_data calls made
    load_result,      \* what the last load_data call returned
    analysis_type,    \* the view selected in the sidebar
    refresh_mark,     \* loads made when Refresh Data was last pressed, or -1
    view_reads        \* loads whose tables the views have read since then

engagementVars == <<engagement_data, scores, at_risk, risk_data>>
binVars == <<engagement_percentile, risk_level>>
quizVars == <<attempts_df, df_quiz, merged>>
forumVars == <<forum_data, df_forum, G, metrics, sample_G>>
courseVars == <<course_data, completion_rate, top_courses>>
logVars == <<log_data, df_clean, df_again, engagement, patterns>>
sessionVars == <<session_state, self_data, loads, load_result, analysis_type,
                 refresh_mark, view_reads>>
profileVars == <<course_patterns, student_profiles, clusters>>
pipelineVars == <<engagementVars, binVars, quizVars, forumVars, courseVars,
                  logVars, profileVars>>

vars == <<pc, pipelineVars, sessionVars>>

----------------------------------------------------------------------------
(* Bounds: the number of rows of the engagement table, and the values its   *)
(* columns take                                                             *)
MaxRows == 3

Users == {1, 2}
Courses == {1, 2}
Dates == {1, 2}
ActionCounts == {1, 2}
SubmissionCounts == {0, 1}

----------------------------------------------------------------------------
(* Floats as fractions *)
Frac(n, d) == [num |-> n, den |-> d]
NaN == Frac(0, 0)
IsNaN(x) == x.den = 0 /\ x.num = 0
IsInf(x) == x.den = 0 /\ x.num # 0
IsFinite(x) == x.den > 0

\* x < y, x <= y, x = y on floats; any comparison with NaN is false
FracLT(x, y) == IsFinite(x) /\ IsFinite(y) /\ x.num * y.den < y.num * x.den
FracLE(x, y) == IsFinite(x) /\ IsFinite(y) /\ x.num * y.den <= y.num * x.den
FracEQ(x, y) == IsFinite(x) /\ IsFinite(y) /\ x.num * y.den = y.num * x.den

RECURSIVE SeqSum(_)
SeqSum(s) == IF s = <<>> THEN 0 ELSE Head(s) + SeqSum(Tail(s))

Range(s) == {s[i] : i \in 1..Len(s)}

\* lexicographic order on (userid, courseid) keys, the order groupby emits
KeyLT(a, b) == a[1] < b[1] \/ (a[1] = b[1] /\ a[2] < b[2])

RECURSIVE SortKeys(_)
SortKeys(S) ==
    IF S = {} THEN <<>>
    ELSE LET m == CHOOSE x \in S : \A y \in S \ {x} : KeyLT(x, y)
         IN  <<m>> \o SortKeys(S \ {m})

NoLabel == "NaN"

----------------------------------------------------------------------------
(* pandas.cut(x, bins, labels, right=True, include_lowest) *)
\* number of bin edges strictly below x (searchsorted side='left')
SearchSortedLeft(bins, x) ==
    Cardinality({i \in 1..Len(bins) : FracLT(Frac(bins[i], 1), x)})

pd_cut(x, bins, labels, include_lowest) ==
    IF ~IsFinite(x) THEN NoLabel
    ELSE LET ids == IF include_lowest /\ FracEQ(x, Frac(bins[1], 1))
                    THEN 1
                    ELSE SearchSortedLeft(bins, x)
         IN  IF ids = 0 \/ ids = Len(bins) THEN NoLabel ELSE labels[ids]

----------------------------------------------------------------------------
(* The engagement table, as create_engagement_metrics emits it: one row per  *)
(* (userid, courseid, bucket) that has events, sorted by that key,           *)
(* total_actions >= 1 events of which `submissions` are submits, and         *)
(* active_minutes = 2 * total_actions.                                       *)
MinutesPerAction == 2

EngagementRow(u, c, d, n, k) ==
    [userid |-> u, courseid |-> c, date |-> d,
     total_actions |-> n, submissions |-> k,
     active_minutes |-> n * MinutesPerAction]

RowKeyLT(a, b) ==
    \/ KeyLT(<<a.userid, a.courseid>>, <<b.userid, b.courseid>>)
    \/ (a.userid = b.userid /\ a.courseid = b.courseid /\ a.date < b.date)

create_engagement_metrics ==
    /\ pc = "load"
    /\ Len(engagement_data) < MaxRows
    /\ \E u \in Users, c \in Courses, d \in Dates :
         \E n \in ActionCounts, k \in SubmissionCounts :
            LET row == EngagementRow(u, c, d, n, k)
            IN  /\ k <= n
                /\ engagement_data # <<>> =>
                       RowKeyLT(engagement_data[Len(engagement_data)], row)
                /\ engagement_data' = Append(engagement_data, row)
    /\ UNCHANGED <<pc, scores, at_risk, risk_data>>
    /\ UNCHANGED <<binVars, quizVars, forumVars, courseVars, logVars, sessionVars,
                   profileVars>>

----------------------------------------------------------------------------
(* MoodleAnalytics.calculate_student_engagement_scores *)
\* weights in tenths: scores are kept as integers, ten times the float value
WeightActions == 3        \* 0.3
WeightSubmissions == 4    \* 0.4
WeightMinutes == 3        \* 0.3

GroupKeys(df) == SortKeys({<<df[i].userid, df[i].courseid>> : i \in 1..Len(df)})

GroupRows(df, key) ==
    LET InGroup(r) == r.userid = key[1] /\ r.courseid = key[2]
    IN  SelectSeq(df, InGroup)

Column(df, name) == [i \in 1..Len(df) |-> df[i][name]]

SeqMin(s) == CHOOSE x \in Range(s) : \A y \in Range(s) : x <= y
SeqMax(s) == CHOOSE x \in Range(s) : \A y \in Range(s) : x >= y

\* (score - min) / (max - min) * 100 in float arithmetic: 0/0 is NaN
Normalize(score, lo, hi) == Frac((score - lo) * 100, hi - lo)

engagement_score(total_actions, total_submissions, total_active_minutes) ==
    total_actions * WeightActions
    + total_submissions * WeightSubmissions
    + total_active_minutes * WeightMinutes

AggregateScores(df) ==
    LET keys == GroupKeys(df)
    IN  [i \in 1..Len(keys) |->
            LET g == GroupRows(df, keys[i])
                ta == SeqSum(Column(g, "total_actions"))
                ts == SeqSum(Column(g, "submissions"))
                tm == SeqSum(Column(g, "active_minutes"))
            IN  [userid |-> keys[i][1], courseid |-> keys[i][2],
                 total_actions |-> ta,
                 avg_actions |-> Frac(ta, Len(g)),
                 total_submissions |-> ts,
                 total_active_minutes |-> tm,
                 engagement_score |-> engagement_score(ta, ts, tm)]]

NormalizedScores(df) ==
    LET agg == AggregateScores(df)
        col == Column(agg, "engagement_score")
    IN  [i \in 1..Len(agg) |->
            [userid |-> agg[i].userid, courseid |-> agg[i].courseid,
             total_actions |-> agg[i].total_actions,
             avg_actions |-> agg[i].avg_actions,
             total_submissions |-> agg[i].total_submissions,
             total_active_minutes |-> agg[i].total_active_minutes,
             engagement_score |-> agg[i].engagement_score,
             engagement_score_normalized |->
                 Normalize(agg[i].engagement_score, SeqMin(col), SeqMax(col))]]

calculate_student_engagement_scores ==
    /\ pc = "load"
    /\ scores' = NormalizedScores(engagement_data)
    /\ pc' = "scored"
    /\ UNCHANGED <<engagement_data, at_risk, risk_data>>
    /\ UNCHANGED <<binVars, quizVars, forumVars, courseVars, logVars, sessionVars,
                   profileVars>>

----------------------------------------------------------------------------
(* Quiz grade tables handed to the risk functions *)
Quizzes == {1}
Grades == {0, 50, 70, 85, 100}

\* the tables of at most one row
UpToOneRow(S) == {<<>>} \cup {<<x>> : x \in S}

GradeRows == [userid : Users, courseid : Courses, final_grade : Grades]

\* quiz_grades: no row, one row, or two grades of one student in one course
GradeTables ==
    UpToOneRow(GradeRows)
    \cup {<<x, [x EXCEPT !.final_grade = g]>> : x \in GradeRows, g \in Grades}

QuizTables == UpToOneRow([userid : Users, quiz : Quizzes, final_grade : Grades])

RECURSIVE Flatten(_)
Flatten(ss) == IF ss = <<>> THEN <<>> ELSE Head(ss) \o Flatten(Tail(ss))

----------------------------------------------------------------------------
(* MoodleAnalytics.identify_at_risk_students *)
DefaultThreshold == 30

AtRiskBins == <<0, 15, 30, 100>>
AtRiskLabels == <<"High Risk", "Medium Risk", "Low Risk">>

\* lambda x: 'High Risk' if x < 50 else ('Medium Risk' if x < 70 else 'Low Risk')
grade_based_risk(x) ==
    IF FracLT(x, Frac(50, 1)) THEN "High Risk"
    ELSE IF FracLT(x, Frac(70, 1)) THEN "Medium Risk"
    ELSE "Low Risk"

BelowThreshold(engagement_scores, threshold) ==
    LET Below(r) == FracLT(r.engagement_score_normalized, Frac(threshold, 1))
    IN  SelectSeq(engagement_scores, Below)

WithRiskLevel(r) ==
    [k \in DOMAIN r \cup {"risk_level"} |->
        IF k = "risk_level"
        THEN pd_cut(r.engagement_score_normalized, AtRiskBins, AtRiskLabels, FALSE)
        ELSE r[k]]

WithGrade(r, g) ==
    [k \in DOMAIN r \cup {"final_grade", "grade_based_risk"} |->
        IF k = "final_grade" THEN g
        ELSE IF k = "grade_based_risk" THEN grade_based_risk(g)
        ELSE r[k]]

\* at_risk.merge(quiz_grades, on=['userid', 'courseid'], how='left')
MergeGrades(r, quiz_grades) ==
    LET Match(q) == q.userid = r.userid /\ q.courseid = r.courseid
        m == SelectSeq(quiz_grades, Match)
    IN  IF m = <<>> THEN <<WithGrade(r, NaN)>>
        ELSE [j \in 1..Len(m) |-> WithGrade(r, Frac(m[j].final_grade, 1))]

AtRisk(engagement_scores, has_quiz, quiz_grades, threshold) ==
    LET below == BelowThreshold(engagement_scores, threshold)
        lev == [i \in 1..Len(below) |-> WithRiskLevel(below[i])]
    IN  IF has_quiz
        THEN Flatten([i \in 1..Len(lev) |-> MergeGrades(lev[i], quiz_grades)])
        ELSE lev

identify_at_risk_students ==
    /\ pc = "scored"
    /\ \E has_quiz \in BOOLEAN, quiz_grades \in GradeTables :
          /\ ~has_quiz => quiz_grades = <<>>
          /\ at_risk' = AtRisk(scores, has_quiz, quiz_grades, DefaultThreshold)
    /\ pc' = "assessed"
    /\ UNCHANGED <<engagement_data, scores, risk_data>>
    /\ UNCHANGED <<binVars, quizVars, forumVars, courseVars, logVars, sessionVars,
                   profileVars>>

----------------------------------------------------------------------------
(* SampleDataPreprocessor.generate_sample_risk_analysis *)
\* the engagement_score column create_sample_engagement_metrics adds, in tenths
SampleWeightActions == 4
SampleWeightSubmissions == 4
SampleWeightMinutes == 2

sample_engagement_score(r) ==
    r.total_actions * SampleWeightActions
    + r.submissions * SampleWeightSubmissions
    + r.active_minutes * SampleWeightMinutes

RiskBins == <<0, 25, 50, 75, 100>>
GradeBins == <<0, 50, 70, 85, 100>>
RiskLabels == <<"High Risk", "Medium Risk", "Low Risk", "Very Low Risk">>

\* variant: rank(ascending=False, pct=True) * 100
PercentileRank_descending(col, i) ==
    LET more == Cardinality({j \in 1..Len(col) : FracLT(col[i], col[j])})
        same == Cardinality({j \in 1..Len(col) : FracEQ(col[j], col[i])})
    IN  Frac(100 * (2 * more + same + 1), 2 * Len(col))

\* Series.rank(pct=True) * 100, ties averaged
PercentileRank(col, i) ==
    LET less == Cardinality({j \in 1..Len(col) : FracLT(col[j], col[i])})
        same == Cardinality({j \in 1..Len(col) : FracEQ(col[j], col[i])})
    IN  Frac(100 * (2 * less + same + 1), 2 * Len(col))

RiskGroups(df) ==
    LET keys == GroupKeys(df)
    IN  [i \in 1..Len(keys) |->
            LET g == GroupRows(df, keys[i])
            IN  [userid |-> keys[i][1], courseid |-> keys[i][2],
                 engagement_score |->
                     Frac(SeqSum([j \in 1..Len(g) |-> sample_engagement_score(g[j])]),
                          Len(g)),
                 total_actions |-> SeqSum(Column(g, "total_actions")),
                 submissions |-> SeqSum(Column(g, "submissions")),
                 active_minutes |-> SeqSum(Column(g, "active_minutes"))]]

\* variant: the lowest edge left out of the first bin
engagement_risk_level_open(percentile) ==
    pd_cut(percentile, RiskBins, RiskLabels, FALSE)

engagement_risk_level(percentile) == pd_cut(percentile, RiskBins, RiskLabels, TRUE)

grade_risk(avg_quiz_score) == pd_cut(avg_quiz_score, GradeBins, RiskLabels, TRUE)

\* quiz_df.groupby(['userid', 'quiz'])['final_grade'].mean(), looked up by
\* (userid, courseid): the quiz column is renamed to courseid before the merge
AvgQuizScore(quiz_df, userid, courseid) ==
    LET Match(q) == q.userid = userid /\ q.quiz = courseid
        m == SelectSeq(quiz_df, Match)
    IN  IF m = <<>> THEN NaN
        ELSE Frac(SeqSum(Column(m, "final_grade")), Len(m))

RiskAnalysis(engagement_df, has_quiz, quiz_df) ==
    LET groups == RiskGroups(engagement_df)
        col == Column(groups, "engagement_score")
    IN  [i \in 1..Len(groups) |->
            LET pct == PercentileRank(col, i)
                base == [userid |-> groups[i].userid,
                         courseid |-> groups[i].courseid,
                         engagement_score |-> groups[i].engagement_score,
                         total_actions |-> groups[i].total_actions,
                         submissions |-> groups[i].submissions,
                         active_minutes |-> groups[i].active_minutes,
                         engagement_percentile |-> pct,
                         risk_level |-> engagement_risk_level(pct)]
                avg == AvgQuizScore(quiz_df, groups[i].userid, groups[i].courseid)
            IN  IF has_quiz /\ quiz_df # <<>>
                THEN [k \in DOMAIN base \cup {"avg_quiz_score", "grade_risk"} |->
                         IF k = "avg_quiz_score" THEN avg
                         ELSE IF k = "grade_risk" THEN grade_risk(avg)
                         ELSE base[k]]
                ELSE base]

generate_sample_risk_analysis ==
    /\ pc = "load"
    /\ \E has_quiz \in BOOLEAN, quiz_df \in QuizTables :
          /\ ~has_quiz => quiz_df = <<>>
          /\ risk_data' = RiskAnalysis(engagement_data, has_quiz, quiz_df)
    /\ pc' = "risk"
    /\ UNCHANGED <<engagement_data, scores, at_risk>>
    /\ UNCHANGED <<binVars, quizVars, forumVars, courseVars, logVars, sessionVars,
                   profileVars>>

----------------------------------------------------------------------------
(* Properties of engagement scoring and risk tiering *)
Tiers == {"High Risk", "Medium Risk", "Low Risk", "Very Low Risk"}

\* the tier of x under right-inclusive bins [0,b1], (b1,b2], (b2,b3], (b3,100]
RightInclusiveTier(x, b1, b2, b3) ==
    IF FracLE(Frac(0, 1), x) /\ FracLE(x, Frac(b1, 1)) THEN "High Risk"
    ELSE IF FracLT(Frac(b1, 1), x) /\ FracLE(x, Frac(b2, 1)) THEN "Medium Risk"
    ELSE IF FracLT(Frac(b2, 1), x) /\ FracLE(x, Frac(b3, 1)) THEN "Low Risk"
    ELSE IF FracLT(Frac(b3, 1), x) /\ FracLE(x, Frac(100, 1)) THEN "Very Low Risk"
    ELSE NoLabel

IsZero(x) == IsFinite(x) /\ x.num = 0

ConstantScores ==
    \A i, j \in 1..Len(scores) : scores[i].engagement_score = scores[j].engagement_score

\* C1: when every (user, course) row has the same engagement_score (also a
\* single-row population), engagement_score_normalized is 0 for every row:
\* a defined number, not the undefined result of a division by zero.
C1_ConstantScoresNormalizeToZero ==
    (pc \in {"scored", "assessed"} /\ ConstantScores) =>
        \A i \in 1..Len(scores) : IsZero(scores[i].engagement_score_normalized)

\* C2: for a non-empty engagement input every engagement_score_normalized
\* lies in [0,100]; the rows with the maximum engagement_score get 100 and the
\* rows with the minimum get 0 (all rows 0 when the scores are constant).
C2_NormalizedRange ==
    (pc \in {"scored", "assessed"} /\ scores # <<>>) =>
        LET col == Column(scores, "engagement_score")
        IN  \A i \in 1..Len(scores) :
               LET n == scores[i].engagement_score_normalized
               IN  /\ FracLE(Frac(0, 1), n) /\ FracLE(n, Frac(100, 1))
                   /\ IF ConstantScores THEN IsZero(n)
                      ELSE /\ col[i] = SeqMax(col) => FracEQ(n, Frac(100, 1))
                           /\ col[i] = SeqMin(col) => IsZero(n)

\* C4: every row of a risk-assessment result carries a risk_level that is one
\* of the named tiers, for generate_sample_risk_analysis and for
\* identify_at_risk_students, also the row whose normalized score is exactly 0.
C4_RiskLevelIsATier ==
    /\ \A i \in 1..Len(risk_data) : risk_data[i].risk_level \in Tiers
    /\ \A i \in 1..Len(at_risk) : at_risk[i].risk_level \in Tiers

\* C5: on every path that produces a grade-based risk, a quiz grade g in
\* [0,100] is tiered by the right-inclusive bins [0,50] High, (50,70] Medium,
\* (70,85] Low, (85,100] Very Low.
C5_GradeBinsOnEveryPath ==
    /\ \A i \in 1..Len(risk_data) :
          ("grade_risk" \in DOMAIN risk_data[i]
              /\ IsFinite(risk_data[i].avg_quiz_score)) =>
             risk_data[i].grade_risk =
                 RightInclusiveTier(risk_data[i].avg_quiz_score, 50, 70, 85)
    /\ \A i \in 1..Len(at_risk) :
          ("grade_based_risk" \in DOMAIN at_risk[i]
              /\ IsFinite(at_risk[i].final_grade)) =>
             at_risk[i].grade_based_risk =
                 RightInclusiveTier(at_risk[i].final_grade, 50, 70, 85)

----------------------------------------------------------------------------
(* The risk binning of generate_sample_risk_analysis applied to one          *)
(* percentile value, drawn from the multiples of 1/PercentileDen in [0,100]. *)
PercentileDen == 2

PercentileInputs == {Frac(n, PercentileDen) : n \in 0..(100 * PercentileDen)}

cut_engagement_percentile ==
    /\ pc \in {"load", "binned"}
    /\ \E p \in PercentileInputs :
          /\ engagement_percentile' = p
          /\ risk_level' = engagement_risk_level(p)
    /\ pc' = "binned"
    /\ UNCHANGED <<engagementVars, quizVars, forumVars, courseVars, logVars, sessionVars,
                   profileVars>>

----------------------------------------------------------------------------
(* Quiz attempts.  Rows come in any order; userid, quiz, the upstream         *)
(* attempt number and the two epoch timestamps are the columns the            *)
(* processing reads.                                                          *)
MaxAttemptRows == 3

AttemptNumbers == {1, 2}
Times == {1, 2}

AttemptRows ==
    [userid : Users, quiz : Quizzes, attempt : AttemptNumbers,
     timestart : Times, timefinish : Times]

load_quiz_data ==
    /\ pc = "load"
    /\ Len(attempts_df) < MaxAttemptRows
    /\ \E row \in AttemptRows : attempts_df' = Append(attempts_df, row)
    /\ UNCHANGED <<pc, df_quiz, merged>>
    /\ UNCHANGED <<engagementVars, binVars, forumVars, courseVars, logVars, sessionVars,
                   profileVars>>

SecondsPerMinute == 60

\* (timefinish - timestart).dt.total_seconds() / 60
duration_minutes(r) == Frac(r.timefinish - r.timestart, SecondsPerMinute)

SameQuizGroup(a, b) == a.userid = b.userid /\ a.quiz = b.quiz

\* groupby(['userid', 'quiz']).cumcount(): rows of the group above row i
cumcount(df, i) ==
    Cardinality({j \in 1..(i - 1) : SameQuizGroup(df[j], df[i])})

\* groupby(['userid', 'quiz'])[col].transform('max' / 'min')
GroupMax(df, col, i) ==
    LET vals == {df[j][col] : j \in {k \in 1..Len(df) : SameQuizGroup(df[k], df[i])}}
    IN  CHOOSE x \in vals : \A y \in vals : x >= y

GroupMin(df, col, i) ==
    LET vals == {df[j][col] : j \in {k \in 1..Len(df) : SameQuizGroup(df[k], df[i])}}
    IN  CHOOSE x \in vals : \A y \in vals : x <= y

(* MoodleDataPreprocessor.process_quiz_data *)
\* variant: numbering from 0
attempt_number_zero_based(df, i) == cumcount(df, i)

attempt_number(df, i) == cumcount(df, i) + 1

ProcessQuiz(df) ==
    LET numbered == [i \in 1..Len(df) |->
                        [userid |-> df[i].userid, quiz |-> df[i].quiz,
                         attempt |-> df[i].attempt,
                         timestart |-> df[i].timestart,
                         timefinish |-> df[i].timefinish,
                         duration_minutes |-> duration_minutes(df[i]),
                         attempt_number |-> attempt_number(df, i)]]
    IN  [i \in 1..Len(df) |->
            [k \in DOMAIN numbered[i] \cup {"is_first_attempt", "is_last_attempt"} |->
                IF k = "is_first_attempt" THEN numbered[i].attempt_number = 1
                ELSE IF k = "is_last_attempt"
                     THEN GroupMax(numbered, "attempt_number", i)
                             = numbered[i].attempt_number
                ELSE numbered[i][k]]]

process_quiz_data ==
    /\ pc = "load"
    /\ df_quiz' = ProcessQuiz(attempts_df)
    /\ pc' = "quiz_processed"
    /\ UNCHANGED <<attempts_df, merged>>
    /\ UNCHANGED <<engagementVars, binVars, forumVars, courseVars, logVars, sessionVars,
                   profileVars>>

(* SampleDataPreprocessor.preprocess_sample_quizzes *)
\* quizzes_df: the quiz table, one row per quiz id
QuizInfoTables == {SortKeys({<<q, q>> : q \in S}) : S \in SUBSET Quizzes}

is_first_attempt(df, i) == GroupMin(df, "attempt", i) = df[i].attempt
is_last_attempt(df, i) == GroupMax(df, "attempt", i) = df[i].attempt

PreprocessSampleQuizzes(quizzes_df, df) ==
    [i \in 1..Len(df) |->
        [userid |-> df[i].userid, quiz |-> df[i].quiz,
         attempt |-> df[i].attempt,
         timestart |-> df[i].timestart, timefinish |-> df[i].timefinish,
         duration_minutes |-> duration_minutes(df[i]),
         is_first_attempt |-> is_first_attempt(df, i),
         is_last_attempt |-> is_last_attempt(df, i),
         \* merge(quizzes, left_on='quiz', right_on='id', how='left')
         id |-> IF \E j \in 1..Len(quizzes_df) : quizzes_df[j][1] = df[i].quiz
                THEN Frac(df[i].quiz, 1) ELSE NaN]]

preprocess_sample_quizzes ==
    /\ pc = "load"
    /\ \E quizzes_df \in QuizInfoTables :
          merged' = PreprocessSampleQuizzes(quizzes_df, attempts_df)
    /\ pc' = "quiz_merged"
    /\ UNCHANGED <<attempts_df, df_quiz>>
    /\ UNCHANGED <<engagementVars, binVars, forumVars, courseVars, logVars, sessionVars,
                   profileVars>>

----------------------------------------------------------------------------
(* Forum posts.  Post ids are unique (primary key) and listed in id order;   *)
(* parent = 0 marks a discussion root; a parent id need not be among the     *)
(* extracted posts.                                                          *)
MaxPosts == 3

PostIds == 1..MaxPosts

load_forum_data ==
    /\ pc = "load"
    /\ \E id \in PostIds, u \in Users, parent \in 0..MaxPosts, t \in Times :
          /\ parent # id
          /\ \A i \in 1..Len(forum_data) : forum_data[i].id < id
          /\ forum_data' = Append(forum_data,
                 [id |-> id, userid |-> u, parent |-> parent, created |-> t])
    /\ UNCHANGED <<pc, df_forum, G, metrics, sample_G>>
    /\ UNCHANGED <<engagementVars, binVars, quizVars, courseVars, logVars, sessionVars,
                   profileVars>>

(* MoodleDataPreprocessor._calculate_reply_times *)
SecondsPerHour == 3600

WithId(df, id) == LET Is(r) == r.id = id IN SelectSeq(df, Is)
WithParent(df, id) == LET Is(r) == r.parent = id IN SelectSeq(df, Is)

\* variant: a reply whose parent is not among the posts gets 0 hours
time_since_parent_zero_default(df, row) ==
    LET parent_post == WithId(df, row.parent)
    IN  IF parent_post # <<>>
        THEN Frac(row.created - parent_post[1].created, SecondsPerHour)
        ELSE Frac(0, SecondsPerHour)

\* the branch for a reply: the time since its parent post (lines 86-92)
time_since_parent(df, row) ==
    LET parent_post == WithId(df, row.parent)
    IN  IF parent_post # <<>>
        THEN Frac(row.created - parent_post[1].created, SecondsPerHour)
        ELSE NaN

\* variant: the latest reply instead of the first
time_to_first_reply_latest(df, row) ==
    LET replies == WithParent(df, row.id)
    IN  IF replies # <<>>
        THEN Frac(SeqMax(Column(replies, "created")) - row.created,
                  SecondsPerHour)
        ELSE NaN

\* the branch for a root post: the time to its first reply (lines 93-100)
time_to_first_reply(df, row) ==
    LET replies == WithParent(df, row.id)
    IN  IF replies # <<>>
        THEN Frac(SeqMin(Column(replies, "created")) - row.created,
                  SecondsPerHour)
        ELSE NaN

reply_time(df, row) ==
    IF row.parent > 0
    THEN time_since_parent(df, row)
    ELSE time_to_first_reply(df, row)

(* MoodleDataPreprocessor.process_forum_data *)
ProcessForum(df) ==
    [i \in 1..Len(df) |->
        [id |-> df[i].id, userid |-> df[i].userid, parent |-> df[i].parent,
         created |-> df[i].created,
         is_reply |-> df[i].parent > 0,
         hours_to_first_reply |-> reply_time(df, df[i])]]

process_forum_data ==
    /\ pc = "load"
    /\ df_forum' = ProcessForum(forum_data)
    /\ pc' = "forum_processed"
    /\ UNCHANGED <<forum_data, G, metrics, sample_G>>
    /\ UNCHANGED <<engagementVars, binVars, quizVars, courseVars, logVars, sessionVars,
                   profileVars>>

(* MoodleAnalytics.analyze_forum_interaction_network *)
EmptyGraph == [nodes |-> {}, edges |-> {}]

\* variant: an edge also for a reply whose parent is not among the posts
ReplyEdge_unchecked(df, row) ==
    IF row.is_reply /\ row.parent > 0
    THEN LET parent_post == WithId(df, row.parent)
         IN  IF parent_post # <<>>
             THEN {<<row.userid, parent_post[1].userid>>}
             ELSE {<<row.userid, row.parent>>}
    ELSE {}

\* the edge the loop adds for one row, as a set of at most one edge
ReplyEdge(df, row) ==
    IF row.is_reply /\ row.parent > 0
    THEN LET parent_post == WithId(df, row.parent)
         IN  IF parent_post # <<>>
             THEN {<<row.userid, parent_post[1].userid>>}
             ELSE {}
    ELSE {}

InteractionGraph(df) ==
    [nodes |-> {df[i].userid : i \in 1..Len(df)},
     edges |-> UNION {ReplyEdge(df, df[i]) : i \in 1..Len(df)}]

\* nx.average_clustering divides by the number of nodes
NetworkMetrics(graph) ==
    IF graph.nodes = {}
    THEN [raised |-> TRUE, num_nodes |-> 0, num_edges |-> 0]
    ELSE [raised |-> FALSE,
          num_nodes |-> Cardinality(graph.nodes),
          num_edges |-> Cardinality(graph.edges)]

analyze_forum_interaction_network ==
    /\ pc = "forum_processed"
    /\ LET graph == InteractionGraph(df_forum)
           m == NetworkMetrics(graph)
       IN  /\ metrics' = m
           /\ G' = IF m.raised THEN G ELSE graph
    /\ pc' = "forum_analyzed"
    /\ UNCHANGED <<forum_data, df_forum, sample_G>>
    /\ UNCHANGED <<engagementVars, binVars, quizVars, courseVars, logVars, sessionVars,
                   profileVars>>

(* SampleVisualizer.create_sample_forum_network_graph: undirected *)
SampleReplyEdge(df, row) ==
    IF row.is_reply /\ row.parent > 0
    THEN LET parent_post == WithId(df, row.parent)
         IN  IF parent_post # <<>> /\ parent_post[1].userid # row.userid
             THEN {{row.userid, parent_post[1].userid}}
             ELSE {}
    ELSE {}

SampleGraph(df) ==
    [nodes |-> {df[i].userid : i \in 1..Len(df)},
     edges |-> UNION {SampleReplyEdge(df, df[i]) : i \in 1..Len(df)}]

create_sample_forum_network_graph ==
    /\ pc = "forum_processed"
    /\ sample_G' = IF df_forum = <<>> THEN sample_G ELSE SampleGraph(df_forum)
    /\ pc' = "forum_drawn"
    /\ UNCHANGED <<forum_data, df_forum, G, metrics>>
    /\ UNCHANGED <<engagementVars, binVars, quizVars, courseVars, logVars, sessionVars,
                   profileVars>>

----------------------------------------------------------------------------
(* Course table of the snapshot: one row per course with the two counts of   *)
(* load_course_data.                                                         *)
MaxCourses == 3
MaxEnrolled == 2
MaxCompletions == 2

load_course_data ==
    /\ pc = "load"
    /\ Len(course_data) < MaxCourses
    /\ \E e \in 0..MaxEnrolled, c \in 0..MaxCompletions :
          course_data' = Append(course_data,
              [id |-> Len(course_data) + 1, enrolled_users |-> e, completions |-> c])
    /\ UNCHANGED <<pc, completion_rate, top_courses>>
    /\ UNCHANGED <<engagementVars, binVars, quizVars, forumVars, logVars, sessionVars,
                   profileVars>>

(* MoodleDashboard.show_course_analytics *)
TopN == 10

FracAdd(x, y) == Frac(x.num * y.den + y.num * x.den, x.den * y.den)

RECURSIVE FracSum(_)
FracSum(s) == IF s = <<>> THEN Frac(0, 1) ELSE FracAdd(Head(s), FracSum(Tail(s)))

\* Series.mean(), which skips NaN; the mean of no values is NaN
NanMean(s) ==
    LET NotNaN(x) == ~IsNaN(x)
        vals == SelectSeq(s, NotNaN)
        total == FracSum(vals)
    IN  IF vals = <<>> THEN NaN ELSE Frac(total.num, total.den * Len(vals))

\* completions / enrolled_users.replace(0, np.nan)
GuardedRatio(r) ==
    IF r.enrolled_users = 0 THEN NaN ELSE Frac(r.completions, r.enrolled_users)

AvgCompletionRate(df) ==
    LET m == NanMean([i \in 1..Len(df) |-> GuardedRatio(df[i])])
    IN  IF IsNaN(m) THEN Frac(0, 1) ELSE Frac(m.num * 100, m.den)

\* Series.round(1): to one decimal, halves to even; NaN and inf unchanged
Round1(x) ==
    IF ~IsFinite(x) THEN x
    ELSE LET n == x.num * 10
             q == n \div x.den
             r == n % x.den
         IN  IF 2 * r < x.den THEN Frac(q, 10)
             ELSE IF 2 * r > x.den THEN Frac(q + 1, 10)
             ELSE IF q % 2 = 0 THEN Frac(q, 10) ELSE Frac(q + 1, 10)

\* completions / enrolled_users * 100, float division
course_completion_rate(r) == Round1(Frac(r.completions * 100, r.enrolled_users))

\* DataFrame.nlargest(n, 'enrolled_users'): descending, ties in row order
RECURSIVE NLargest(_, _)
NLargest(df, n) ==
    IF n = 0 \/ df = <<>> THEN <<>>
    ELSE LET i == CHOOSE k \in 1..Len(df) :
                     /\ \A j \in 1..Len(df) : df[j].enrolled_users <= df[k].enrolled_users
                     /\ \A j \in 1..(k - 1) : df[j].enrolled_users < df[k].enrolled_users
             rest == [j \in 1..(Len(df) - 1) |-> IF j < i THEN df[j] ELSE df[j + 1]]
         IN  <<df[i]>> \o NLargest(rest, n - 1)

TopCourses(df) ==
    LET top == NLargest(df, TopN)
    IN  [i \in 1..Len(top) |->
            [id |-> top[i].id, enrolled_users |-> top[i].enrolled_users,
             completions |-> top[i].completions,
             completion_rate |-> course_completion_rate(top[i])]]

show_course_analytics ==
    /\ pc = "load"
    /\ IF course_data = <<>>
       THEN UNCHANGED <<completion_rate, top_courses>>
       ELSE /\ completion_rate' = AvgCompletionRate(course_data)
            /\ top_courses' = TopCourses(course_data)
    /\ pc' = "course_shown"
    /\ UNCHANGED course_data
    /\ UNCHANGED <<engagementVars, binVars, quizVars, forumVars, logVars, sessionVars,
                   profileVars>>

----------------------------------------------------------------------------
(* Log events, as load_log_data extracts them: rows of                       *)
(* mdl_logstore_standard_log joined with their user and course, in any       *)
(* order.  id is the primary key, timecreated an epoch time in seconds.  An  *)
(* event name is its backslash-separated components, each a sequence of the  *)
(* words that the underscores separate: \mod_forum\event\post_created is     *)
(* <<<<"mod", "forum">>, <<"event">>, <<"post", "created">>>>.               *)
MaxEvents == 3

\* the (userid, courseid) pairs the events come from
Enrolments == {<<1, 1>>, <<1, 2>>, <<2, 1>>}

\* 1970-01-01 23:00 and 1970-01-02 01:00
LogTimes == {82800, 90000}

EventNames ==
    { <<<<"core">>, <<"event">>, <<"course", "viewed">>>>,
      <<<<"mod", "assign">>, <<"event">>, <<"assessable", "submitted">>>>,
      <<<<"mod", "forum">>, <<"event">>, <<"post", "created">>>> }

load_log_data ==
    /\ pc = "load"
    /\ Len(log_data) < MaxEvents
    /\ \E e \in Enrolments, t \in LogTimes, name \in EventNames :
          log_data' = Append(log_data,
              [id |-> Len(log_data) + 1, userid |-> e[1], courseid |-> e[2],
               timecreated |-> t, eventname |-> name])
    /\ UNCHANGED <<pc, df_clean, df_again, engagement, patterns>>
    /\ UNCHANGED <<engagementVars, binVars, quizVars, forumVars, courseVars, sessionVars,
                   profileVars>>

(* MoodleDataLoader.load_from_csv: an exported log, whose timecreated can be  *)
(* missing.  One user in one course: the cleaning works row by row.          *)
\* a missing value of a numeric column (NaN)
Missing == -1

CsvTimes == LogTimes \cup {Missing}

load_from_csv ==
    /\ pc = "load"
    /\ Len(log_data) < MaxEvents
    /\ \E t \in CsvTimes, name \in EventNames :
          log_data' = Append(log_data,
              [id |-> Len(log_data) + 1, userid |-> 1, courseid |-> 1,
               timecreated |-> t, eventname |-> name])
    /\ UNCHANGED <<pc, df_clean, df_again, engagement, patterns>>
    /\ UNCHANGED <<engagementVars, binVars, quizVars, forumVars, courseVars, sessionVars,
                   profileVars>>

----------------------------------------------------------------------------
(* Timestamps: pd.to_datetime(seconds, unit='s') and the .dt accessors.  A   *)
(* timestamp is the day since 1970-01-01 and the second of that day.         *)
SecondsPerDay == 86400

DayNames == <<"Monday", "Tuesday", "Wednesday", "Thursday", "Friday",
              "Saturday", "Sunday">>

\* a missing value of a timestamp column (NaT)
NaT == [day |-> Missing, second |-> Missing]

\* variant: a missing timecreated is filled with 0 before the conversion
to_datetime_filled(seconds) ==
    IF seconds = Missing
    THEN [day |-> 0, second |-> 0]
    ELSE [day |-> seconds \div SecondsPerDay, second |-> seconds % SecondsPerDay]

\* pd.to_datetime(seconds, unit='s'): NaT for a missing value
to_datetime(seconds) ==
    IF seconds = Missing
    THEN NaT
    ELSE [day |-> seconds \div SecondsPerDay, second |-> seconds % SecondsPerDay]

\* the .dt accessors give a missing value for NaT
dt_hour(ts) == IF ts = NaT THEN Missing ELSE ts.second \div SecondsPerHour

\* 1970-01-01 was a Thursday
dt_day_name(ts) ==
    IF ts = NaT THEN NoLabel ELSE DayNames[((ts.day + 3) % 7) + 1]

\* a calendar date, as the day since 1970-01-01
dt_date(ts) == IF ts = NaT THEN Missing ELSE ts.day

\* ISO week number; the ISO year 1970 began on Monday 1969-12-29 (day -3) and
\* had 53 weeks, which covers the days -3..367
dt_isoweek(ts) == IF ts = NaT THEN Missing ELSE ((ts.day + 3) \div 7) + 1

\* the bucket of pd.Grouper(freq='D'): the timestamp floored to its day
floor_day(ts) == [day |-> ts.day, second |-> 0]

\* df[col] = value for every column of `new`, the other columns kept
WithColumns(r, new) ==
    [k \in DOMAIN r \cup DOMAIN new |-> IF k \in DOMAIN new THEN new[k] ELSE r[k]]

----------------------------------------------------------------------------
(* MoodleDataPreprocessor.clean_log_data *)
\* x.split('\\')[-1] if '\\' in str(x) else x
action_type(eventname) ==
    IF Len(eventname) > 1 THEN eventname[Len(eventname)] ELSE eventname[1]

\* word in str(action).lower()
Contains(action, word) == \E i \in 1..Len(action) : action[i] = word

categorize_action(action) ==
    IF Contains(action, "viewed") THEN "view"
    ELSE IF Contains(action, "submitted") THEN "submit"
    ELSE IF Contains(action, "created") THEN "create"
    ELSE IF Contains(action, "updated") THEN "update"
    ELSE "other"

clean_log_row(r) ==
    LET time_created == to_datetime(r.timecreated)
        action == action_type(r.eventname)
    IN  WithColumns(r,
            [time_created |-> time_created,
             hour |-> dt_hour(time_created),
             day_of_week |-> dt_day_name(time_created),
             date |-> dt_date(time_created),
             action_type |-> action,
             action_category |-> categorize_action(action)])

CleanLogData(df) == [i \in 1..Len(df) |-> clean_log_row(df[i])]

clean_log_data ==
    /\ pc = "load"
    /\ df_clean' = CleanLogData(log_data)
    /\ pc' = "cleaned"
    /\ UNCHANGED <<log_data, df_again, engagement, patterns>>
    /\ UNCHANGED <<engagementVars, binVars, quizVars, forumVars, courseVars, sessionVars,
                   profileVars>>

\* clean_log_data applied to the table it returned
clean_log_data_again ==
    /\ pc = "cleaned"
    /\ df_again' = CleanLogData(df_clean)
    /\ pc' = "recleaned"
    /\ UNCHANGED <<log_data, df_clean, engagement, patterns>>
    /\ UNCHANGED <<engagementVars, binVars, quizVars, forumVars, courseVars, sessionVars,
                   profileVars>>

----------------------------------------------------------------------------
(* SampleDataPreprocessor.preprocess_sample_logs *)
\* variant: a time_created column that is already there is moved by an hour
\* (a UTC offset)
sample_time_created_shifted(r) ==
    IF "time_created" \notin DOMAIN r
    THEN to_datetime(r.timecreated)
    ELSE to_datetime(r.time_created.day * SecondsPerDay
                     + r.time_created.second + SecondsPerHour)

\* the conversion is skipped when the table has a time_created column
sample_time_created(r) ==
    IF "time_created" \notin DOMAIN r
    THEN to_datetime(r.timecreated)
    ELSE r.time_created

sample_categorize_action(action) ==
    IF Contains(action, "viewed") THEN "view"
    ELSE IF Contains(action, "submitted") \/ Contains(action, "created")
         THEN "submit"
    ELSE IF Contains(action, "updated") THEN "update"
    ELSE "other"

preprocess_sample_row(r) ==
    LET time_created == sample_time_created(r)
        action == action_type(r.eventname)
    IN  WithColumns(r,
            [time_created |-> time_created,
             hour |-> dt_hour(time_created),
             day_of_week |-> dt_day_name(time_created),
             date |-> dt_date(time_created),
             week |-> dt_isoweek(time_created),
             action_type |-> action,
             action_category |-> sample_categorize_action(action)])

PreprocessSampleLogs(df) == [i \in 1..Len(df) |-> preprocess_sample_row(df[i])]

preprocess_sample_logs ==
    /\ pc = "load"
    /\ df_clean' = PreprocessSampleLogs(log_data)
    /\ pc' = "sample_cleaned"
    /\ UNCHANGED <<log_data, df_again, engagement, patterns>>
    /\ UNCHANGED <<engagementVars, binVars, quizVars, forumVars, courseVars, sessionVars,
                   profileVars>>

\* preprocess_sample_logs applied to the table it returned
preprocess_sample_logs_again ==
    /\ pc = "sample_cleaned"
    /\ df_again' = PreprocessSampleLogs(df_clean)
    /\ pc' = "sample_recleaned"
    /\ UNCHANGED <<log_data, df_clean, engagement, patterns>>
    /\ UNCHANGED <<engagementVars, binVars, quizVars, forumVars, courseVars, sessionVars,
                   profileVars>>

----------------------------------------------------------------------------
(* MoodleDataPreprocessor.create_engagement_metrics on a cleaned log, with   *)
(* the default time_period 'D'                                               *)
\* variant: the course is left out of the grouping key
group_key_without_course(r) == <<r.userid, 0, floor_day(r.time_created).day>>

\* groupby(['userid', 'courseid', pd.Grouper(key='time_created', freq='D')])
group_key(r) == <<r.userid, r.courseid, floor_day(r.time_created).day>>

BucketLT(a, b) ==
    \/ a[1] < b[1]
    \/ a[1] = b[1] /\ a[2] < b[2]
    \/ a[1] = b[1] /\ a[2] = b[2] /\ a[3] < b[3]

RECURSIVE SortBuckets(_)
SortBuckets(S) ==
    IF S = {} THEN <<>>
    ELSE LET m == CHOOSE x \in S : \A y \in S \ {x} : BucketLT(x, y)
         IN  <<m>> \o SortBuckets(S \ {m})

\* the groups that have rows, in key order
BucketKeys(df) == SortBuckets({group_key(df[i]) : i \in 1..Len(df)})

BucketRows(df, key) ==
    LET InBucket(r) == group_key(r) = key IN SelectSeq(df, InBucket)

\* variant: created events count as submissions too
count_submissions_and_creations(g) ==
    LET IsSubmit(r) == r.action_category \in {"submit", "create"}
    IN  Len(SelectSeq(g, IsSubmit))

\* lambda x: (x == 'submit').sum()
count_submissions(g) ==
    LET IsSubmit(r) == r.action_category = "submit"
    IN  Len(SelectSeq(g, IsSubmit))

\* 'id': 'count'
count_id(g) == Len(g)

\* 'time_created': 'nunique'
nunique_time_created(g) == Cardinality(Range(Column(g, "time_created")))

CreateEngagementMetrics(df) ==
    LET keys == BucketKeys(df)
    IN  [i \in 1..Len(keys) |->
            LET g == BucketRows(df, keys[i])
            IN  [userid |-> keys[i][1], courseid |-> keys[i][2],
                 time_created |-> [day |-> keys[i][3], second |-> 0],
                 total_actions |-> count_id(g),
                 submissions |-> count_submissions(g),
                 active_minutes |-> count_id(g) * MinutesPerAction]]

create_engagement_metrics_of_log ==
    /\ pc = "cleaned"
    /\ engagement' = CreateEngagementMetrics(df_clean)
    /\ pc' = "metrics"
    /\ UNCHANGED <<log_data, df_clean, df_again, patterns>>
    /\ UNCHANGED <<engagementVars, binVars, quizVars, forumVars, courseVars, sessionVars,
                   profileVars>>

(* SampleDataPreprocessor.create_sample_engagement_metrics *)
CreateSampleEngagementMetrics(df) ==
    LET keys == BucketKeys(df)
    IN  [i \in 1..Len(keys) |->
            LET g == BucketRows(df, keys[i])
                row == [userid |-> keys[i][1], courseid |-> keys[i][2],
                        time_created |-> [day |-> keys[i][3], second |-> 0],
                        total_actions |-> count_id(g),
                        submissions |-> count_submissions(g),
                        active_days |-> nunique_time_created(g),
                        active_minutes |-> count_id(g) * MinutesPerAction]
            IN  WithColumns(row,
                    [engagement_score |-> sample_engagement_score(row)])]

create_sample_engagement_metrics ==
    /\ pc = "sample_cleaned"
    /\ engagement' = CreateSampleEngagementMetrics(df_clean)
    /\ pc' = "sample_metrics"
    /\ UNCHANGED <<log_data, df_clean, df_again, patterns>>
    /\ UNCHANGED <<engagementVars, binVars, quizVars, forumVars, courseVars, sessionVars,
                   profileVars>>

----------------------------------------------------------------------------
(* MoodleAnalytics.analyze_course_activity_patterns.  The table it is given  *)
(* is the caller's: the week_number column is written into it.  The          *)
(* component column of the log is not modelled, nor the count by component.  *)
\* df.groupby(column).size(): the number of rows for each value present
GroupSize(df, column) ==
    [v \in Range(Column(df, column)) |->
        Cardinality({i \in 1..Len(df) : df[i][column] = v})]

WithWeekNumber(df) ==
    [i \in 1..Len(df) |->
        WithColumns(df[i], [week_number |-> dt_isoweek(df[i].time_created)])]

analyze_course_activity_patterns ==
    /\ pc = "cleaned"
    /\ df_clean' = WithWeekNumber(df_clean)
    /\ patterns' = [hourly_activity |-> GroupSize(df_clean, "hour"),
                    daily_activity |-> GroupSize(df_clean, "day_of_week"),
                    weekly_activity |->
                        GroupSize(WithWeekNumber(df_clean), "week_number")]
    /\ pc' = "patterns"
    /\ UNCHANGED <<log_data, df_again, engagement>>
    /\ UNCHANGED <<engagementVars, binVars, quizVars, forumVars, courseVars, sessionVars,
                   profileVars>>

----------------------------------------------------------------------------
(* The dashboard session (src/dashboard/app.py).  One browser session runs   *)
(* the script from its top at every interaction; st.session_state lives      *)
(* across the runs, the MoodleDashboard object is built anew by each run.    *)
(* pc is the position of the script: at its top ("load" before the first     *)
(* run, "rerun" after st.rerun(), "idle" or "stopped" when the last run      *)
(* ended and the user interacts again), in the sidebar, or in the view.      *)
(* A table of a snapshot is the number of the load_data call that fetched    *)
(* it, whether it has rows, and the columns written into it since.           *)
MaxLoads == 3

\* the feeds in the order load_data fetches them
Feeds == <<"log_data", "quiz_data", "forum_data", "completion_data",
           "course_data", "user_data">>

FeedNames == Range(Feeds)

\* the steps of load_data that can raise: connecting, then each feed
LoadSteps == <<"connect">> \o Feeds

AnalysisTypes ==
    {"Overview", "Student Engagement", "Course Analytics", "Forum Analysis",
     "Quiz Performance", "Predictive Analytics"}

\* st.session_state.get(key, pd.DataFrame()) for a key that is not there
NoTable == [load |-> 0, rows |-> 0, columns |-> {}]

\* what the database holds at the time of a load: the log, forum and user
\* feeds with rows or without, the other feeds with rows
Contents ==
    {c \in [FeedNames -> {0, 1}] :
        \A f \in {"quiz_data", "completion_data", "course_data"} : c[f] = 1}

\* the feed was fetched by a load_data that raised at step fail_at
\* (0: no step raised)
Fetched(f, fail_at) ==
    \E i \in 1..Len(Feeds) : Feeds[i] = f /\ (fail_at = 0 \/ i + 1 < fail_at)

\* variant: each feed is stored in the session state as soon as it is fetched
session_after_load_stepwise(ss, n, content, fail_at) ==
    [data_loaded |-> ss.data_loaded \/ fail_at = 0,
     data_source |-> IF fail_at = 0 THEN "database" ELSE ss.data_source,
     tables |-> [f \in FeedNames |->
                    IF Fetched(f, fail_at)
                    THEN [load |-> n, rows |-> content[f], columns |-> {}]
                    ELSE ss.tables[f]]]

\* the session state after load_data number n: the entries are written after
\* the last feed is fetched (lines 79-86)
session_after_load(ss, n, content, fail_at) ==
    IF fail_at = 0
    THEN [data_loaded |-> TRUE,
          data_source |-> "database",
          tables |-> [f \in FeedNames |->
                         [load |-> n, rows |-> content[f], columns |-> {}]]]
    ELSE ss

\* self.log_data .. self.user_data: assigned feed by feed (lines 71-76)
attributes_after_load(attrs, n, fail_at) ==
    [f \in FeedNames |-> IF Fetched(f, fail_at) THEN n ELSE attrs[f]]

\* variant: data_loaded is set as soon as the connection is made
LoadData_flag_first(ss, attrs, n, content, fail_at) ==
    [ok |-> fail_at = 0,
     session_state |->
         [session_after_load(ss, n, content, fail_at)
            EXCEPT !.data_loaded = ss.data_loaded \/ fail_at # 1],
     self_data |-> attributes_after_load(attrs, n, fail_at)]

\* MoodleDashboard.load_data, called as the n-th load
LoadData(ss, attrs, n, content, fail_at) ==
    [ok |-> fail_at = 0,
     session_state |-> session_after_load(ss, n, content, fail_at),
     self_data |-> attributes_after_load(attrs, n, fail_at)]

\* MoodleDashboard.__init__: no feed attribute is set
NoAttributes == [f \in FeedNames |-> 0]

Result(ok) == IF ok THEN "ok" ELSE "failed"

(* the script body under __main__ up to dashboard.run() *)
main ==
    /\ pc \in {"load", "rerun", "idle", "stopped"}
    /\ IF ~session_state.data_loaded
       THEN /\ loads < MaxLoads
            /\ \E content \in Contents, fail_at \in 0..Len(LoadSteps) :
                  LET r == LoadData(session_state, NoAttributes, loads + 1,
                                    content, fail_at)
                  IN  /\ session_state' = r.session_state
                      /\ self_data' = r.self_data
                      /\ load_result' = Result(r.ok)
                      /\ pc' = IF r.ok THEN "sidebar" ELSE "stopped"
            /\ loads' = loads + 1
       ELSE /\ self_data' = NoAttributes
            /\ pc' = "sidebar"
            /\ UNCHANGED <<session_state, loads, load_result>>
    /\ UNCHANGED <<analysis_type, refresh_mark, view_reads>>
    /\ UNCHANGED pipelineVars

(* MoodleDashboard.run entered by a script that imports the module: the    *)
(* load under __main__ is not made before show_sidebar                       *)
run ==
    /\ pc \in {"load", "rerun", "idle", "stopped"}
    /\ self_data' = NoAttributes
    /\ pc' = "sidebar"
    /\ UNCHANGED <<session_state, loads, load_result, analysis_type,
                   refresh_mark, view_reads>>
    /\ UNCHANGED pipelineVars

(* MoodleDashboard.show_sidebar: the Refresh Data button, then the analysis  *)
(* type.  refresh_mark and view_reads observe the run: the number of loads   *)
(* made when Refresh Data was last pressed, and the loads whose tables the   *)
(* views rendered since then have read.                                      *)
show_sidebar ==
    /\ pc = "sidebar"
    /\ \/ /\ loads < MaxLoads
          /\ \E content \in Contents, fail_at \in 0..Len(LoadSteps) :
                LET r == LoadData(session_state, self_data, loads + 1,
                                  content, fail_at)
                IN  /\ session_state' = r.session_state
                    /\ self_data' = r.self_data
                    /\ load_result' = Result(r.ok)
          /\ loads' = loads + 1
          /\ refresh_mark' = loads
          /\ view_reads' = {}
          /\ pc' = "rerun"
          /\ UNCHANGED analysis_type
       \/ /\ \E type \in AnalysisTypes : analysis_type' = type
          /\ pc' = "view"
          /\ UNCHANGED <<session_state, self_data, loads, load_result,
                         refresh_mark, view_reads>>
    /\ UNCHANGED pipelineVars

\* df[column] = ... on a table of the session state
WriteColumns(ss, f, cols) ==
    [ss EXCEPT !.tables[f].columns = @ \cup cols]

\* the columns a view writes into the tables it was handed
ViewWrites(type, ss) ==
    CASE type = "Overview" ->
            IF ss.tables["log_data"].rows > 0
            THEN WriteColumns(ss, "log_data", {"date"})
            ELSE ss
      [] type = "Student Engagement" ->
            IF ss.tables["log_data"].rows = 0 \/ ss.tables["user_data"].rows = 0
            THEN ss
            ELSE WriteColumns(ss, "log_data", {"datetime", "hour"})
      [] type = "Forum Analysis" ->
            IF ss.tables["forum_data"].rows = 0
            THEN ss
            ELSE WriteColumns(ss, "forum_data", {"datetime"})
      [] OTHER -> ss

\* the session-state entries a view reads
ViewReads(type) ==
    CASE type = "Overview" -> {"log_data", "course_data", "user_data"}
      [] type = "Student Engagement" -> {"log_data", "user_data"}
      [] type = "Course Analytics" -> {"course_data"}
      [] type = "Forum Analysis" -> {"forum_data", "user_data"}
      [] type = "Quiz Performance" -> {"quiz_data"}
      [] type = "Predictive Analytics" ->
            {"log_data", "user_data", "completion_data"}

\* variant: the view goes on to read the tables when its load_data fails
ShowView_without_return(type) ==
    /\ pc = "view"
    /\ IF ~session_state.data_loaded
       THEN /\ loads < MaxLoads
            /\ \E content \in Contents, fail_at \in 0..Len(LoadSteps) :
                  LET r == LoadData(session_state, self_data, loads + 1,
                                    content, fail_at)
                  IN  /\ self_data' = r.self_data
                      /\ load_result' = Result(r.ok)
                      /\ session_state' =
                            IF r.ok THEN ViewWrites(type, r.session_state)
                            ELSE r.session_state
                      /\ view_reads' =
                            view_reads \cup
                                 {r.session_state.tables[f].load :
                                      f \in ViewReads(type)}
            /\ loads' = loads + 1
       ELSE /\ session_state' = ViewWrites(type, session_state)
            /\ view_reads' = view_reads \cup
                  {session_state.tables[f].load : f \in ViewReads(type)}
            /\ UNCHANGED <<self_data, loads, load_result>>
    /\ pc' = "idle"
    /\ UNCHANGED <<analysis_type, refresh_mark>>
    /\ UNCHANGED pipelineVars

\* a show_* method: load when the session has no data_loaded entry and return
\* if that fails, else read the tables and render
ShowView(type) ==
    /\ pc = "view"
    /\ IF ~session_state.data_loaded
       THEN /\ loads < MaxLoads
            /\ \E content \in Contents, fail_at \in 0..Len(LoadSteps) :
                  LET r == LoadData(session_state, self_data, loads + 1,
                                    content, fail_at)
                  IN  /\ self_data' = r.self_data
                      /\ load_result' = Result(r.ok)
                      /\ session_state' =
                            IF r.ok THEN ViewWrites(type, r.session_state)
                            ELSE r.session_state
                      /\ view_reads' =
                            IF r.ok
                            THEN view_reads \cup
                                 {r.session_state.tables[f].load :
                                      f \in ViewReads(type)}
                            ELSE view_reads
            /\ loads' = loads + 1
       ELSE /\ session_state' = ViewWrites(type, session_state)
            /\ view_reads' = view_reads \cup
                  {session_state.tables[f].load : f \in ViewReads(type)}
            /\ UNCHANGED <<self_data, loads, load_result>>
    /\ pc' = "idle"
    /\ UNCHANGED <<analysis_type, refresh_mark>>
    /\ UNCHANGED pipelineVars

\* MoodleDashboard.run dispatches on the analysis type
show_overview ==
    /\ analysis_type = "Overview"
    /\ ShowView("Overview")

show_engagement_analysis ==
    /\ analysis_type = "Student Engagement"
    /\ ShowView("Student Engagement")

show_course_analytics_view ==
    /\ analysis_type = "Course Analytics"
    /\ ShowView("Course Analytics")

show_forum_analysis ==
    /\ analysis_type = "Forum Analysis"
    /\ ShowView("Forum Analysis")

show_quiz_performance ==
    /\ analysis_type = "Quiz Performance"
    /\ ShowView("Quiz Performance")

show_predictive_analytics ==
    /\ analysis_type = "Predictive Analytics"
    /\ ShowView("Predictive Analytics")

----------------------------------------------------------------------------
(* SampleDataPreprocessor.create_sample_course_analytics on a preprocessed   *)
(* log.  The log is merged with the course table on courseid = id: a log     *)
(* that has an id column of its own then carries id_x and id_y and no id,    *)
(* and the aggregation of 'id' raises KeyError.  A log without an id column  *)
(* (an export without the key) gets the id of its course.  A nullable value  *)
(* is the set of at most one value.                                          *)
\* the course tables: id is the primary key
CourseTables == {<<>>, <<[id |-> 1]>>, <<[id |-> 1], [id |-> 2]>>}

WithoutColumn(r, c) == [k \in DOMAIN r \ {c} |-> r[k]]

\* logs_df.merge(courses_df, left_on='courseid', right_on='id', how='left')
merge_courses(logs_df, with_id, courses_df) ==
    [i \in 1..Len(logs_df) |->
        LET r == logs_df[i]
            IsCourse(c) == c.id = r.courseid
            match == SelectSeq(courses_df, IsCourse)
            right_id == IF match = <<>> THEN {} ELSE {match[1].id}
        IN  IF with_id
            THEN WithColumns(WithoutColumn(r, "id"),
                             [id_x |-> {r.id}, id_y |-> right_id])
            ELSE WithColumns(WithoutColumn(r, "id"), [id |-> right_id])]

RECURSIVE SortInts(_)
SortInts(S) ==
    IF S = {} THEN <<>>
    ELSE LET m == CHOOSE x \in S : \A y \in S : x <= y
         IN  <<m>> \o SortInts(S \ {m})

\* seconds since 1970-01-01 of a timestamp
epoch_seconds(ts) == ts.day * SecondsPerDay + ts.second

\* Timedelta.days: the whole days of a non-negative time difference
timedelta_days(later, earlier) ==
    (epoch_seconds(later) - epoch_seconds(earlier)) \div SecondsPerDay

\* (last_activity - first_activity).dt.days + 1
activity_span_days(first_activity, last_activity) ==
    timedelta_days(last_activity, first_activity) + 1

CoursePatterns(course_logs) ==
    LET ids == SortInts(Range(Column(course_logs, "courseid")))
    IN  [i \in 1..Len(ids) |->
            LET InCourse(r) == r.courseid = ids[i]
                g == SelectSeq(course_logs, InCourse)
                HasId(r) == r.id # {}
                seconds == {epoch_seconds(g[j].time_created) : j \in 1..Len(g)}
                first == CHOOSE j \in 1..Len(g) :
                            \A s \in seconds : epoch_seconds(g[j].time_created) <= s
                last == CHOOSE j \in 1..Len(g) :
                            \A s \in seconds : epoch_seconds(g[j].time_created) >= s
            IN  [courseid |-> ids[i],
                 unique_students |-> Cardinality(Range(Column(g, "userid"))),
                 total_actions |-> Len(SelectSeq(g, HasId)),
                 total_submissions |-> count_submissions(g),
                 first_activity |-> g[first].time_created,
                 last_activity |-> g[last].time_created,
                 activity_span_days |->
                     activity_span_days(g[first].time_created,
                                        g[last].time_created)]]

CreateSampleCourseAnalytics(logs_df, with_id, courses_df) ==
    IF with_id
    THEN [raised |-> TRUE, rows |-> <<>>]
    ELSE [raised |-> FALSE,
          rows |-> CoursePatterns(merge_courses(logs_df, with_id, courses_df))]

create_sample_course_analytics ==
    /\ pc = "sample_cleaned"
    /\ \E with_id \in BOOLEAN, courses_df \in CourseTables :
          course_patterns' =
              CreateSampleCourseAnalytics(df_clean, with_id, courses_df)
    /\ pc' = "course_analytics"
    /\ UNCHANGED <<student_profiles, clusters>>
    /\ UNCHANGED <<engagementVars, binVars, quizVars, forumVars, courseVars, logVars,
                   sessionVars>>

----------------------------------------------------------------------------
(* Student profiles and SampleDataVisualizer.create_sample_student_clusters  *)
MaxStudents == 3

ProfileActions == {1, 2, 3}
\* mean quiz grades; missing for a student without attempts (left merge)
ProfileScores == {0, 50, 100, Missing}

\* create_sample_student_profiles: one row per userid
load_student_profiles ==
    /\ pc = "load"
    /\ Len(student_profiles) < MaxStudents
    /\ \E a \in ProfileActions, s \in ProfileScores :
          student_profiles' = Append(student_profiles,
              [userid |-> Len(student_profiles) + 1,
               total_actions |-> a, avg_quiz_score |-> s])
    /\ UNCHANGED <<pc, course_patterns, clusters>>
    /\ UNCHANGED <<engagementVars, binVars, quizVars, forumVars, courseVars, logVars,
                   sessionVars>>

\* the values of a column that are not missing
Present(col) == SelectSeq(col, LAMBDA x : x # Missing)

\* the k-th smallest value of a sequence
KthSmallest(s, k) ==
    CHOOSE x \in Range(s) :
        /\ Cardinality({i \in 1..Len(s) : s[i] < x}) < k
        /\ Cardinality({i \in 1..Len(s) : s[i] <= x}) >= k

\* Series.median(), which skips missing values: NaN when none is present
median(col) ==
    LET s == Present(col)
        n == Len(s)
    IN  IF n = 0 THEN NaN
        ELSE IF n % 2 = 1 THEN Frac(KthSmallest(s, (n + 1) \div 2), 1)
        ELSE Frac(KthSmallest(s, n \div 2) + KthSmallest(s, n \div 2 + 1), 2)

\* df[col].fillna(df[col].median()), as floats
fillna_median(col) ==
    [i \in 1..Len(col) |-> IF col[i] = Missing THEN median(col) ELSE Frac(col[i], 1)]

\* the smallest and the largest of a float column, NaN skipped
FracMin(col) ==
    IF \A i \in 1..Len(col) : ~IsFinite(col[i]) THEN NaN
    ELSE CHOOSE x \in Range(col) :
            IsFinite(x) /\ \A i \in 1..Len(col) : IsFinite(col[i]) => FracLE(x, col[i])

FracMax(col) ==
    IF \A i \in 1..Len(col) : ~IsFinite(col[i]) THEN NaN
    ELSE CHOOSE x \in Range(col) :
            IsFinite(x) /\ \A i \in 1..Len(col) : IsFinite(col[i]) => FracLE(col[i], x)

\* x - y and x / y in float arithmetic, for x >= y and y >= 0
FracSub(x, y) ==
    IF ~IsFinite(x) \/ ~IsFinite(y) THEN NaN
    ELSE Frac(x.num * y.den - y.num * x.den, x.den * y.den)

FracDiv(x, y) ==
    IF ~IsFinite(x) \/ ~IsFinite(y) THEN NaN
    ELSE Frac(x.num * y.den, x.den * y.num)

\* (x - min) / (max - min), unguarded: 0/0 is NaN
min_max_norm(col, i) ==
    FracDiv(FracSub(col[i], FracMin(col)), FracSub(FracMax(col), FracMin(col)))

Half == Frac(1, 2)

\* df['cluster'] = 0, then the four .loc assignments; a comparison with NaN
\* selects no row, so such a row keeps the initial 0
quadrant(actions_norm, score_norm) ==
    IF FracLT(Half, actions_norm) /\ FracLT(Half, score_norm) THEN 0
    ELSE IF FracLT(Half, actions_norm) /\ FracLE(score_norm, Half) THEN 1
    ELSE IF FracLE(actions_norm, Half) /\ FracLT(Half, score_norm) THEN 2
    ELSE IF FracLE(actions_norm, Half) /\ FracLE(score_norm, Half) THEN 3
    ELSE 0

\* the frame that is plotted; None (no rows) for an empty profile table
StudentClusters(student_profiles_df) ==
    LET actions == fillna_median(Column(student_profiles_df, "total_actions"))
        grades == fillna_median(Column(student_profiles_df, "avg_quiz_score"))
    IN  [i \in 1..Len(student_profiles_df) |->
            LET a == min_max_norm(actions, i)
                s == min_max_norm(grades, i)
            IN  [userid |-> student_profiles_df[i].userid,
                 total_actions |-> actions[i],
                 avg_quiz_score |-> grades[i],
                 actions_norm |-> a,
                 score_norm |-> s,
                 cluster |-> quadrant(a, s)]]

create_sample_student_clusters ==
    /\ pc = "load"
    /\ clusters' = StudentClusters(student_profiles)
    /\ pc' = "clustered"
    /\ UNCHANGED <<course_patterns, student_profiles>>
    /\ UNCHANGED <<engagementVars, binVars, quizVars, forumVars, courseVars, logVars,
                   sessionVars>>

----------------------------------------------------------------------------
Init ==
    /\ pc = "load"
    /\ engagement_data = <<>>
    /\ scores = <<>>
    /\ at_risk = <<>>
    /\ risk_data = <<>>
    /\ engagement_percentile = NaN
    /\ risk_level = NoLabel
    /\ attempts_df = <<>>
    /\ df_quiz = <<>>
    /\ merged = <<>>
    /\ forum_data = <<>>
    /\ df_forum = <<>>
    /\ G = EmptyGraph
    /\ metrics = [raised |-> FALSE, num_nodes |-> 0, num_edges |-> 0]
    /\ sample_G = EmptyGraph
    /\ course_data = <<>>
    /\ completion_rate = Frac(0, 1)
    /\ top_courses = <<>>
    /\ log_data = <<>>
    /\ df_clean = <<>>
    /\ df_again = <<>>
    /\ engagement = <<>>
    /\ patterns = <<>>
    /\ session_state = [data_loaded |-> FALSE, data_source |-> "",
                        tables |-> [f \in FeedNames |-> NoTable]]
    /\ self_data = NoAttributes
    /\ loads = 0
    /\ load_result = "none"
    /\ analysis_type = "Overview"
    /\ refresh_mark = -1
    /\ view_reads = {}
    /\ course_patterns = [raised |-> FALSE, rows |-> <<>>]
    /\ student_profiles = <<>>
    /\ clusters = <<>>

NextEngagement ==
    \/ create_engagement_metrics
    \/ calculate_student_engagement_scores
    \/ identify_at_risk_students
    \/ generate_sample_risk_analysis

NextRisk ==
    \/ create_engagement_metrics
    \/ generate_sample_risk_analysis

NextRiskBins == cut_engagement_percentile

NextQuiz ==
    \/ load_quiz_data
    \/ process_quiz_data
    \/ preprocess_sample_quizzes

NextForum ==
    \/ load_forum_data
    \/ process_forum_data
    \/ analyze_forum_interaction_network
    \/ create_sample_forum_network_graph

NextCourse ==
    \/ load_course_data
    \/ show_course_analytics

NextLog ==
    \/ load_log_data
    \/ clean_log_data
    \/ clean_log_data_again
    \/ create_engagement_metrics_of_log
    \/ analyze_course_activity_patterns
    \/ preprocess_sample_logs
    \/ preprocess_sample_logs_again
    \/ create_sample_engagement_metrics

NextLogCsv ==
    \/ load_from_csv
    \/ clean_log_data

NextClusters ==
    \/ load_student_profiles
    \/ create_sample_student_clusters

NextCourseAnalytics ==
    \/ load_log_data
    \/ preprocess_sample_logs
    \/ create_sample_course_analytics

NextDashboard ==
    \/ main
    \/ show_sidebar
    \/ show_overview
    \/ show_engagement_analysis
    \/ show_course_analytics_view
    \/ show_forum_analysis
    \/ show_quiz_performance
    \/ show_predictive_analytics

NextViews ==
    \/ NextDashboard
    \/ run

Next ==
    \/ NextEngagement
    \/ NextRiskBins
    \/ NextQuiz
    \/ NextForum
    \/ NextCourse
    \/ NextLog
    \/ NextDashboard
    \/ NextCourseAnalytics
    \/ NextLogCsv
    \/ run
    \/ NextClusters

SpecEngagement == Init /\ [][NextEngagement]_vars
SpecRisk == Init /\ [][NextRisk]_vars
SpecRiskBins == Init /\ [][NextRiskBins]_vars
SpecQuiz == Init /\ [][NextQuiz]_vars
SpecForum == Init /\ [][NextForum]_vars
SpecCourse == Init /\ [][NextCourse]_vars
SpecLog == Init /\ [][NextLog]_vars
SpecDashboard == Init /\ [][NextDashboard]_vars
SpecLogCsv == Init /\ [][NextLogCsv]_vars
SpecClusters == Init /\ [][NextClusters]_vars
SpecViews == Init /\ [][NextViews]_vars
SpecCourseAnalytics == Init /\ [][NextCourseAnalytics]_vars
Spec == Init /\ [][Next]_vars

----------------------------------------------------------------------------
(* Properties of the risk binning *)
\* the right-inclusive bin of each tier over percentiles
InRiskBin(t, x) ==
    CASE t = "High Risk" -> FracLE(Frac(0, 1), x) /\ FracLE(x, Frac(25, 1))
      [] t = "Medium Risk" -> FracLT(Frac(25, 1), x) /\ FracLE(x, Frac(50, 1))
      [] t = "Low Risk" -> FracLT(Frac(50, 1), x) /\ FracLE(x, Frac(75, 1))
      [] t = "Very Low Risk" -> FracLT(Frac(75, 1), x) /\ FracLE(x, Frac(100, 1))

\* C3: every engagement_percentile in [0,100] gets exactly one of the four
\* tiers, the one whose right-inclusive bin [0,25], (25,50], (50,75],
\* (75,100] contains it; so 0 and 25 are High, 50 Medium, 75 Low, 100 Very Low.
C3_RiskBinsRightInclusive ==
    pc = "binned" =>
        /\ risk_level \in Tiers
        /\ \A t \in Tiers : (risk_level = t) <=> InRiskBin(t, engagement_percentile)

C3_Witness ==
    /\ pc = "binned"
    /\ FracEQ(engagement_percentile, Frac(25, 1))
    /\ risk_level = "High Risk"

----------------------------------------------------------------------------
(* Properties of quiz processing *)
QuizGroup(df, i) == {j \in 1..Len(df) : SameQuizGroup(df[j], df[i])}

ExactlyOne(S) == Cardinality(S) = 1

FirstRows(df, i) == {j \in QuizGroup(df, i) : df[j].is_first_attempt}
LastRows(df, i) == {j \in QuizGroup(df, i) : df[j].is_last_attempt}

OneFirstOneLast(df) ==
    \A i \in 1..Len(df) :
        /\ ExactlyOne(FirstRows(df, i))
        /\ ExactlyOne(LastRows(df, i))
        /\ QuizGroup(df, i) = {i} =>
              df[i].is_first_attempt /\ df[i].is_last_attempt

\* C6: process_quiz_data numbers the attempts of every (userid, quiz) group of
\* size N, for rows in any order, with a permutation of 1..N that increases
\* with timestart.
C6_AttemptNumbersChronological ==
    pc = "quiz_processed" =>
        \A i \in 1..Len(df_quiz) :
            /\ {df_quiz[j].attempt_number : j \in QuizGroup(df_quiz, i)}
                  = 1..Cardinality(QuizGroup(df_quiz, i))
            /\ \A j \in QuizGroup(df_quiz, i) :
                  df_quiz[i].timestart < df_quiz[j].timestart =>
                      df_quiz[i].attempt_number < df_quiz[j].attempt_number

\* C7 as stated: after quiz processing every (userid, quiz) group has exactly
\* one is_first_attempt row and exactly one is_last_attempt row (the same row
\* in a group of one), with computed ordinals and with the upstream attempt
\* column alike.
C7_ExactlyOneFirstAndLast ==
    /\ pc = "quiz_processed" => OneFirstOneLast(df_quiz)
    /\ pc = "quiz_merged" => OneFirstOneLast(merged)

DistinctAttempts(df, i) ==
    \A j, k \in QuizGroup(df, i) : df[j].attempt = df[k].attempt => j = k

\* C7 amended: with computed ordinals every group has exactly one first and
\* one last row; with the upstream attempt column the flagged rows are those
\* holding the group's least (greatest) attempt value, so at least one each,
\* and exactly one each in every group whose attempt values are distinct.
C7_OneFirstOneLastForDistinctOrdinals ==
    /\ pc = "quiz_processed" => OneFirstOneLast(df_quiz)
    /\ pc = "quiz_merged" =>
          \A i \in 1..Len(merged) :
              /\ FirstRows(merged, i) # {} /\ LastRows(merged, i) # {}
              /\ \A j \in QuizGroup(merged, i) :
                    /\ merged[i].is_first_attempt => merged[i].attempt <= merged[j].attempt
                    /\ merged[i].is_last_attempt => merged[i].attempt >= merged[j].attempt
              /\ DistinctAttempts(merged, i) =>
                    /\ ExactlyOne(FirstRows(merged, i))
                    /\ ExactlyOne(LastRows(merged, i))
              /\ QuizGroup(merged, i) = {i} =>
                    merged[i].is_first_attempt /\ merged[i].is_last_attempt

C7_Witness ==
    /\ pc = "quiz_merged"
    /\ \E i \in 1..Len(merged) :
          /\ Cardinality(QuizGroup(merged, i)) = 2
          /\ DistinctAttempts(merged, i)
          /\ merged[i].is_last_attempt /\ ~merged[i].is_first_attempt
    /\ \E i \in 1..Len(merged) : QuizGroup(merged, i) = {i}

----------------------------------------------------------------------------
(* Properties of the course view *)
\* C8: for a course with 0 enrolled users every completion rate computed for
\* it is 0, not NaN or infinity: the per-course completion_rate of the
\* top-courses table, and the averaged rate when no course has enrolments.
C8_ZeroEnrollmentRateIsZero ==
    (pc = "course_shown" /\ course_data # <<>>) =>
        /\ \A i \in 1..Len(top_courses) :
              top_courses[i].enrolled_users = 0 =>
                  IsZero(top_courses[i].completion_rate)
        /\ (\A i \in 1..Len(course_data) : course_data[i].enrolled_users = 0) =>
              IsZero(completion_rate)

----------------------------------------------------------------------------
(* Properties of the forum interaction graph *)
\* C9: the graph of analyze_forum_interaction_network has no self-loop, also
\* when a user replies to their own post.
C9_NoSelfLoops == \A e \in G.edges : e[1] # e[2]

Resolvable(df, i) ==
    df[i].parent > 0 /\ \E j \in 1..Len(df) : df[j].id = df[i].parent

ResolvableReplies(df) == {i \in 1..Len(df) : Resolvable(df, i)}

\* C10: the graph has at most as many edges as there are reply posts
\* (parent > 0) whose parent id is the id of a post, and every edge comes from
\* such a reply: a reply whose parent matches no post adds none.
C10_EdgesFromResolvableReplies ==
    pc = "forum_analyzed" =>
        /\ Cardinality(G.edges) <= Cardinality(ResolvableReplies(df_forum))
        /\ \A e \in G.edges :
              \E i \in ResolvableReplies(df_forum) :
                  /\ df_forum[i].userid = e[1]
                  /\ \E j \in 1..Len(df_forum) :
                        /\ df_forum[j].id = df_forum[i].parent
                        /\ df_forum[j].userid = e[2]

C10_Witness ==
    /\ pc = "forum_analyzed"
    /\ G.edges # {}
    /\ \E i \in 1..Len(df_forum) :
          df_forum[i].parent > 0 /\ ~Resolvable(df_forum, i)

----------------------------------------------------------------------------
(* Properties of the reply times *)
HoursBetween(later, earlier) == Frac(later - earlier, SecondsPerHour)

\* C11: for every post with parent > 0, hours_to_first_reply is its own
\* created time minus the created time of the post whose id is its parent, in
\* hours, when such a post is anywhere in the post set; when there is none the
\* value is NaN for that row only, and every other row is still computed.
C11_ReplyTimeSinceParent ==
    pc = "forum_processed" =>
        /\ Len(df_forum) = Len(forum_data)
        /\ \A i \in 1..Len(df_forum) :
              df_forum[i].parent > 0 =>
                  /\ \A j \in 1..Len(forum_data) :
                        forum_data[j].id = df_forum[i].parent =>
                            FracEQ(df_forum[i].hours_to_first_reply,
                                   HoursBetween(forum_data[i].created,
                                                forum_data[j].created))
                  /\ ~Resolvable(df_forum, i) =>
                        IsNaN(df_forum[i].hours_to_first_reply)

C11_Witness ==
    /\ pc = "forum_processed"
    /\ \E i, j \in 1..Len(df_forum) :
          /\ df_forum[i].parent > 0 /\ ~Resolvable(df_forum, i)
          /\ IsNaN(df_forum[i].hours_to_first_reply)
          /\ Resolvable(df_forum, j)
          /\ FracEQ(df_forum[j].hours_to_first_reply, HoursBetween(2, 1))

DirectReplies(df, i) == {j \in 1..Len(df) : df[j].parent = df[i].id}

\* C12: for every root post (parent = 0), hours_to_first_reply is the created
\* time of the earliest-created post whose parent is the root's id minus the
\* root's created time, in hours, and NaN when no post has the root as parent;
\* a root with exactly one direct reply has the same value as that reply.
C12_RootTimeToEarliestReply ==
    pc = "forum_processed" =>
        \A i \in 1..Len(df_forum) :
            df_forum[i].parent = 0 =>
                LET R == DirectReplies(forum_data, i)
                    h == df_forum[i].hours_to_first_reply
                IN  /\ R = {} => IsNaN(h)
                    /\ R # {} =>
                          \E j \in R :
                              /\ \A k \in R : forum_data[j].created
                                                 <= forum_data[k].created
                              /\ FracEQ(h, HoursBetween(forum_data[j].created,
                                                        forum_data[i].created))
                    /\ Cardinality(R) = 1 =>
                          \A j \in R :
                              FracEQ(h, df_forum[j].hours_to_first_reply)

C12_Witness ==
    /\ pc = "forum_processed"
    /\ \E i \in 1..Len(df_forum) :
          /\ df_forum[i].parent = 0
          /\ \E j, k \in DirectReplies(df_forum, i) :
                /\ df_forum[j].created < df_forum[k].created
                /\ FracEQ(df_forum[i].hours_to_first_reply,
                          HoursBetween(df_forum[j].created, df_forum[i].created))

----------------------------------------------------------------------------
(* Properties of the engagement table *)
\* the (userid, courseid, day) bucket of a log event and of a table row
EventBucket(e) == <<e.userid, e.courseid, e.timecreated \div SecondsPerDay>>
RowBucket(r) == <<r.userid, r.courseid, r.time_created.day>>

EventsOfRow(r) ==
    {i \in 1..Len(log_data) : EventBucket(log_data[i]) = RowBucket(r)}

\* C13: the engagement table of create_engagement_metrics and of
\* create_sample_engagement_metrics has exactly one row for every
\* (userid, courseid, time bucket) that has at least one event, and no other
\* row, whatever the events are.
C13_OneRowPerActiveBucket ==
    pc \in {"metrics", "sample_metrics"} =>
        /\ \A i \in 1..Len(log_data) :
              ExactlyOne({j \in 1..Len(engagement) :
                            RowBucket(engagement[j]) = EventBucket(log_data[i])})
        /\ \A j \in 1..Len(engagement) : EventsOfRow(engagement[j]) # {}

C13_Witness ==
    /\ pc = "metrics"
    /\ Len(log_data) = 3
    /\ Len(engagement) = 2
    /\ \E i, j \in 1..Len(log_data) :
          /\ log_data[i].userid = log_data[j].userid
          /\ log_data[i].courseid # log_data[j].courseid

C15_OneEngagementWeighting ==
    pc = "sample_metrics" =>
        \A j \in 1..Len(engagement) :
            engagement[j].engagement_score =
                engagement_score(engagement[j].total_actions,
                                 engagement[j].submissions,
                                 engagement[j].active_minutes)

----------------------------------------------------------------------------
(* Properties of the log cleaning *)
\* C16: clean_log_data and preprocess_sample_logs give every event name the
\* same action_category, names containing 'created' included.
C16_OneActionTaxonomy ==
    pc \in {"cleaned", "sample_cleaned"} =>
        \A i \in 1..Len(df_clean) :
            /\ df_clean[i].action_category
                  = categorize_action(action_type(log_data[i].eventname))
            /\ df_clean[i].action_category
                  = sample_categorize_action(action_type(log_data[i].eventname))

CleanedColumns ==
    {"time_created", "hour", "day_of_week", "date", "action_type",
     "action_category"}

\* C17: clean_log_data applied to its own output, and preprocess_sample_logs
\* applied to its own output, give every row the time_created, hour,
\* day_of_week, date, action_type and action_category of the first
\* application.
C17_CleaningIdempotent ==
    pc \in {"recleaned", "sample_recleaned"} =>
        /\ Len(df_again) = Len(df_clean)
        /\ \A i \in 1..Len(df_again) :
              \A c \in CleanedColumns : df_again[i][c] = df_clean[i][c]

C17_Witness ==
    /\ pc = "sample_recleaned"
    /\ \E i \in 1..Len(df_again) :
          /\ df_again[i].hour = 23
          /\ df_again[i].day_of_week = "Thursday"
          /\ df_again[i].action_category = "submit"
    /\ \E i \in 1..Len(df_again) : df_again[i].date = 1

----------------------------------------------------------------------------
(* Properties of the dashboard session *)
\* C18: no stage and no view changes the table it is given: a step of
\* clean_log_data, process_quiz_data, process_forum_data or
\* analyze_course_activity_patterns leaves its input table as it was, and a
\* view that renders from the cached snapshot leaves the session state as it
\* was.
C18_InputTablesNotMutated ==
    [][/\ (pc = "view" /\ loads' = loads) => session_state' = session_state
       /\ pc' \in {"cleaned", "recleaned"} => log_data' = log_data
       /\ pc' = "quiz_processed" => attempts_df' = attempts_df
       /\ pc' = "forum_processed" => forum_data' = forum_data
       /\ pc' = "patterns" => df_clean' = df_clean]_vars

\* C19: once Refresh Data has been pressed, every view rendered afterwards
\* reads tables fetched by a load that started after that press; the
\* snapshot cached before it is not read again, whether the load of the
\* refresh succeeds or fails.
C19_NoStaleSnapshotAfterRefresh ==
    refresh_mark >= 0 => \A n \in view_reads : n > refresh_mark

\* C20: load_data applies all or nothing to the session state: when
\* connecting or any of the six feed loads fails it returns False and
\* data_loaded and the six table entries are as before; when all succeed
\* data_loaded is set and the six entries are the tables of that one load.
C20_LoadAllOrNothing ==
    [][loads' = loads + 1 =>
          IF load_result' = "failed"
          THEN session_state' = session_state
          ELSE /\ load_result' = "ok"
               /\ session_state'.data_loaded
               /\ \A f \in FeedNames : session_state'.tables[f].load = loads']_vars

C20_Witness ==
    /\ load_result = "failed"
    /\ session_state.data_loaded
    /\ \E f \in FeedNames : self_data[f] = loads
    /\ \E f \in FeedNames : self_data[f] # loads
    /\ \A f \in FeedNames : session_state.tables[f].load = loads - 1

----------------------------------------------------------------------------
(* Properties on empty input *)
\* C21: a stage given an empty table returns an empty result and does not
\* raise: analyze_forum_interaction_network on zero posts returns a graph
\* with 0 nodes and 0 edges and its metrics, process_forum_data on zero posts
\* returns zero rows, calculate_student_engagement_scores on zero rows
\* returns zero rows.
C21_EmptyInputEmptyResult ==
    /\ (pc = "forum_processed" /\ forum_data = <<>>) => df_forum = <<>>
    /\ (pc = "forum_analyzed" /\ forum_data = <<>>) =>
          /\ ~metrics.raised
          /\ metrics.num_nodes = 0 /\ metrics.num_edges = 0
          /\ G = EmptyGraph
    /\ (pc = "scored" /\ engagement_data = <<>>) => scores = <<>>

----------------------------------------------------------------------------
(* Properties of the course analytics *)
\* C22: create_sample_course_analytics gives every course that has events an
\* activity_span_days of (calendar date of its last event - calendar date of
\* its first event) + 1: a first event late on one day and a last event early
\* on the next day give 2.
C22_ActivitySpanCountsBothDays ==
    pc = "course_analytics" =>
        /\ ~course_patterns.raised
        /\ \A c \in Range(Column(df_clean, "courseid")) :
              \E i \in 1..Len(course_patterns.rows) :
                  LET row == course_patterns.rows[i]
                      dates == {df_clean[j].date :
                                   j \in {k \in 1..Len(df_clean) :
                                             df_clean[k].courseid = c}}
                  IN  /\ row.courseid = c
                      /\ \E first, last \in dates :
                            /\ \A d \in dates : first <= d /\ d <= last
                            /\ row.activity_span_days = (last - first) + 1

----------------------------------------------------------------------------
(* Properties of the quiz durations *)
\* C23: every duration_minutes that process_quiz_data and
\* preprocess_sample_quizzes emit is non-negative: an attempt whose timefinish
\* is before its timestart is not emitted as a row with a negative duration.
C23_DurationsNonNegative ==
    /\ pc = "quiz_processed" =>
          \A i \in 1..Len(df_quiz) :
              FracLE(Frac(0, 1), df_quiz[i].duration_minutes)
    /\ pc = "quiz_merged" =>
          \A i \in 1..Len(merged) :
              FracLE(Frac(0, 1), merged[i].duration_minutes)

----------------------------------------------------------------------------
(* Properties of the cleaning of a log with missing timestamps *)
\* C24: clean_log_data gives a row whose timecreated is missing null
\* time_created, hour, day_of_week and date, gives every other row of the
\* batch the fields of its own timestamp, and returns a row for every row.
C24_MissingTimestampGivesNullFields ==
    pc = "cleaned" =>
        /\ Len(df_clean) = Len(log_data)
        /\ \A i \in 1..Len(df_clean) :
              LET t == log_data[i].timecreated
                  r == df_clean[i]
              IN  IF t = Missing
                  THEN /\ r.time_created = NaT
                       /\ r.hour = Missing
                       /\ r.day_of_week = NoLabel
                       /\ r.date = Missing
                  ELSE /\ r.time_created.day * SecondsPerDay
                             + r.time_created.second = t
                       /\ r.hour = (t \div SecondsPerHour) % 24
                       /\ r.date = t \div SecondsPerDay
                       /\ r.day_of_week
                             = DayNames[((t \div SecondsPerDay + 3) % 7) + 1]

C24_Witness ==
    /\ pc = "cleaned"
    /\ Len(df_clean) = 3
    /\ df_clean[1].hour = 23 /\ df_clean[1].day_of_week = "Thursday"
    /\ df_clean[2].time_created = NaT /\ df_clean[2].day_of_week = NoLabel
    /\ df_clean[3].hour = 1 /\ df_clean[3].date = 1

----------------------------------------------------------------------------
(* Properties of the grade risk of the sample risk analysis *)
\* mdl_quiz.course: the course a quiz belongs to; quiz ids and course ids are
\* independent keys, and here quiz 1 is a quiz of course 2
QuizCourse == [q \in Quizzes |-> 2]

\* C26: the grade_risk of a (userid, courseid) row comes from the user's quiz
\* attempts belonging to that course, so a row of a course that has no quiz
\* has no grade_risk.
C26_GradeRiskFromAttemptsOfCourse ==
    pc = "risk" =>
        \A i \in 1..Len(risk_data) :
            ("grade_risk" \in DOMAIN risk_data[i]
                /\ risk_data[i].grade_risk # NoLabel)
            => \E q \in Quizzes : QuizCourse[q] = risk_data[i].courseid

----------------------------------------------------------------------------
(* Properties of the order of the risk tiers *)
\* the tiers from the highest risk to the lowest
TierOrder == <<"High Risk", "Medium Risk", "Low Risk", "Very Low Risk">>

TierRank(label) == CHOOSE k \in 1..Len(TierOrder) : TierOrder[k] = label

\* C30: in the result of generate_sample_risk_analysis a row whose mean
\* engagement_score is at least another row's has at least its
\* engagement_percentile and a tier of no higher risk; rows with equal scores
\* have equal percentile and tier.
C30_TieringMonotoneInEngagement ==
    pc = "risk" =>
        /\ \A i \in 1..Len(risk_data) : risk_data[i].risk_level \in Tiers
        /\ \A i, j \in 1..Len(risk_data) :
              LET a == risk_data[i]
                  b == risk_data[j]
              IN  /\ FracLE(b.engagement_score, a.engagement_score) =>
                        /\ FracLE(b.engagement_percentile, a.engagement_percentile)
                        /\ TierRank(b.risk_level) <= TierRank(a.risk_level)
                  /\ FracEQ(a.engagement_score, b.engagement_score) =>
                        /\ FracEQ(a.engagement_percentile, b.engagement_percentile)
                        /\ a.risk_level = b.risk_level

C30_Witness ==
    /\ pc = "risk"
    /\ Len(risk_data) = 3
    /\ FracEQ(risk_data[1].engagement_score, risk_data[2].engagement_score)
    /\ FracLT(risk_data[1].engagement_score, risk_data[3].engagement_score)
    /\ risk_data[1].risk_level = risk_data[2].risk_level
    /\ TierRank(risk_data[1].risk_level) < TierRank(risk_data[3].risk_level)

----------------------------------------------------------------------------
(* Properties of the quadrant clustering *)
\* C25: every student gets the one segment of 0..3 whose two conditions on
\* the normalized features hold: 0 for activity > 0.5 and score > 0.5, 1 for
\* activity > 0.5 and score <= 0.5, 2 for activity <= 0.5 and score > 0.5,
\* 3 for both <= 0.5; also when all students share one total_actions or one
\* avg_quiz_score.
C25_ClusterMatchesQuadrant ==
    pc = "clustered" =>
        \A i \in 1..Len(clusters) :
            LET a == clusters[i].actions_norm
                s == clusters[i].score_norm
                c == clusters[i].cluster
            IN  /\ c \in 0..3
                /\ c = 0 => FracLT(Half, a) /\ FracLT(Half, s)
                /\ c = 1 => FracLT(Half, a) /\ FracLE(s, Half)
                /\ c = 2 => FracLE(a, Half) /\ FracLT(Half, s)
                /\ c = 3 => FracLE(a, Half) /\ FracLE(s, Half)

----------------------------------------------------------------------------
(* Properties of the snapshot the views read *)
\* C27: while data_loaded is set the six tables of the session state are
\* present and were stored by one load_data call, and the tables a view has
\* read are those of a set data_loaded and of that one call.
C27_SnapshotFromOneLoad ==
    /\ session_state.data_loaded =>
          \E n \in 1..loads :
              \A f \in FeedNames : session_state.tables[f].load = n
    /\ \A n \in view_reads :
          /\ session_state.data_loaded
          /\ n > 0
          /\ \A f \in FeedNames : session_state.tables[f].load = n

C27_Witness ==
    /\ pc = "idle"
    /\ load_result = "failed"
    /\ loads = 3
    /\ view_reads = {2}
    /\ session_state.data_loaded
    /\ \A f \in FeedNames : session_state.tables[f].load = 2

\* C28: a show_* view entered without data_loaded whose load_data fails
\* returns without reading a table and leaves the session state as it was;
\* when the load at start-up fails the script stops and run() is not entered.
C28_FailedLoadReadsNothing ==
    [][(loads' = loads + 1 /\ load_result' = "failed"
            /\ ~session_state.data_loaded) =>
          /\ session_state' = session_state
          /\ view_reads' = view_reads
          /\ pc = "view" => pc' = "idle"
          /\ pc \in {"load", "rerun", "idle", "stopped"} => pc' = "stopped"]_vars

C28_Witness ==
    /\ pc = "idle"
    /\ load_result = "failed"
    /\ ~session_state.data_loaded
    /\ view_reads = {}
    /\ \E f \in FeedNames : self_data[f] = loads
    /\ \A f \in FeedNames : session_state.tables[f] = NoTable

----------------------------------------------------------------------------
(* Properties of the at-risk table *)
\* C29: identify_at_risk_students returns at most one row per (userid,
\* courseid) of engagement_scores, and only rows whose
\* engagement_score_normalized is below the threshold, whatever quiz_grades
\* holds.
C29_OneAtRiskRowPerStudentCourse ==
    pc = "assessed" =>
        /\ \A i, j \in 1..Len(at_risk) :
              (at_risk[i].userid = at_risk[j].userid
                  /\ at_risk[i].courseid = at_risk[j].courseid) => i = j
        /\ \A i \in 1..Len(at_risk) :
              FracLT(at_risk[i].engagement_score_normalized,
                     Frac(DefaultThreshold, 1))

====
